---- MODULE Spec2Model ----
(***************************************************************************)
(* Distance kernels (banded DTW with early abandonment, Euclidean with     *)
(* early abandonment and decimation) and the nearest-match searches        *)
(* (query, pairwise_argmin, score) of tsshapelet, the striped              *)
(* pairwise_argmin_parallel, and the Shapelet class (phase_sync,           *)
(* windowed_extraction, order_candidates, shapelet_selection).             *)
(*                                                                         *)
(* Representation of numbers.  Samples are naturals.  Every distance the   *)
(* kernels return is the square root of a sum of squared differences, so   *)
(* a distance d is represented by the natural d^2; comparing two           *)
(* distances is comparing their squares.  +infinity is Inf, Python's None  *)
(* is None, a raised exception is Raised.  A bound r handed to a kernel is *)
(* represented by r^2 (dtw) or by the fraction rn/rd = r^2 (Euclidean).    *)
(* A window w is the fraction <<num, den>>.  Floating-point rounding is    *)
(* left out: the square of a returned distance is taken to be the sum it   *)
(* is the root of.  A sum of distances (the totals of pairwise_argmin) is  *)
(* kept in thousandths, each root rounded down (Root).  Indices are        *)
(* 0-based as in the source; positions of TLA+ sequences are 1-based.      *)
(*                                                                         *)
(* The kernels are functions of their arguments (C29), so the searches use *)
(* them as operators; the lru_cache itself is the variable cache, written  *)
(* by the memoised calls DtwCached and EdCached.                           *)
(***************************************************************************)
EXTENDS Integers, Sequences, FiniteSets

\* ---------------------------------------------------------------- bounds
MaxVal == 1
MaxLen == 3
MaxLib == 2
MaxBound == 3
MaxRequest == 10
MaxCpu == 10
MaxCacheLen == 2
MaxCache == 2

\* ------------------------------------------------- values of the program
Inf == -1
None == -2
Raised == -3

Samples == 0..MaxVal
Series == UNION {[1..n -> Samples] : n \in 1..MaxLen}
Libraries == UNION {[1..n -> Series] : n \in 0..MaxLib}
Windows == {<<1, 4>>, <<1, 2>>, <<9, 10>>, <<1, 1>>}
BadWindows == {<<0, 1>>, <<3, 2>>}
DefaultWindow == <<9, 10>>
Bounds == (0..MaxBound) \cup {Inf}
MetricNames == {"dtw", "euclidean"}

IsNum(x) == x >= 0 \/ x = Inf

\* a < b on naturals extended with +infinity
Less(a, b) == a /= Inf /\ (b = Inf \/ a < b)

LessEq(a, b) == ~Less(b, a)

\* a + b on naturals extended with +infinity
Add(a, b) == IF a = Inf \/ b = Inf THEN Inf ELSE a + b

Min2(a, b) == IF Less(b, a) THEN b ELSE a

Min3NoLeft(a, b, c) == Min2(a, c)

\* min(cum_sum[i-1, j], cum_sum[i, j-1], cum_sum[i-1, j-1])
Min3(a, b, c) == Min2(a, Min2(b, c))

Max2(a, b) == IF a > b THEN a ELSE b

Sq(x) == x * x

\* ------------------------------------------------------------------- dtw
BandMin(n, m, w) == ((IF n < m THEN n ELSE m) * w[1]) \div w[2]

\* w = int(max([n, m]) * w)
Band(n, m, w) == (Max2(n, m) * w[1]) \div w[2]

\* the inner loop over j of one row i; prev is row i-1, row is row i so far
RECURSIVE FillRow(_, _, _, _, _, _, _)
FillRow(I, J, prev, row, i, j, hi) ==
    IF j > hi THEN row
    ELSE FillRow(I, J, prev,
                 [row EXCEPT ![j] = Add(Sq(I[i] - J[j]),
                                        Min3(prev[j], row[j - 1], prev[j - 1]))],
                 i, j + 1, hi)

\* cum_sum[i,:].min()
RECURSIVE RowMinUpTo(_, _)
RowMinUpTo(row, j) == IF j = 0 THEN row[0] ELSE Min2(row[j], RowMinUpTo(row, j - 1))

RowMin(row, m) == RowMinUpTo(row, m)

AbandonGeq(rowmin, r2) == ~Less(rowmin, r2)

\* if cum_sum[i,:].min() > r_squared
Abandon(rowmin, r2) == Less(r2, rowmin)

InitMatrixZeros(n, m) == [i \in 0..n |-> [j \in 0..m |-> 0]]

\* np.ones((n+1, m+1)) * np.inf ; cum_sum[0, 0] = 0
InitMatrix(n, m) == [i \in 0..n |-> [j \in 0..m |-> IF i = 0 /\ j = 0 THEN 0 ELSE Inf]]

\* one iteration of the outer loop: fill row i
DtwStep(I, J, band, cum, i) ==
    LET m == Len(J)
        lo == Max2(1, i - band)
        hi == IF m < i + band THEN m ELSE i + band
    IN [cum EXCEPT ![i] = FillRow(I, J, cum[i - 1], cum[i], i, lo, hi)]

\* the outer loop from row i on, with the early return
RECURSIVE DtwRows(_, _, _, _, _, _)
DtwRows(I, J, band, r2, cum, i) ==
    IF i > Len(I) THEN cum
    ELSE LET next == DtwStep(I, J, band, cum, i)
         IN IF Abandon(RowMin(next[i], Len(J)), r2) THEN next
            ELSE DtwRows(I, J, band, r2, next, i + 1)

dtw_matrix(I, J, w, r2) ==
    DtwRows(I, J, Band(Len(I), Len(J), w), r2, InitMatrix(Len(I), Len(J)), 1)

\* dtw_matrix(...)[-1, -1]**0.5 ; the result is kept squared
dtw(I, J, w, r2) == dtw_matrix(I, J, w, r2)[Len(I)][Len(J)]

\* ------------------------------------------------------------- euclidean
RECURSIVE EdLoopWhole(_, _, _, _, _, _)
EdLoopWhole(I, J, rn, rd, dist, i) ==
    IF i > Len(I) THEN (IF Sq(dist) * rd > rn THEN dist ELSE None)
    ELSE IF i > Len(J) THEN Raised
    ELSE EdLoopWhole(I, J, rn, rd, dist + Sq(I[i] - J[i]), i + 1)

\* the loop of the bounded branch from index i on; dist is the running sum
RECURSIVE EdLoop(_, _, _, _, _, _)
EdLoop(I, J, rn, rd, dist, i) ==
    IF i > Len(I) THEN None
    ELSE IF i > Len(J) THEN Raised
    ELSE LET d == dist + Sq(I[i] - J[i])
         IN IF Sq(d) * rd > rn THEN d
            ELSE EdLoop(I, J, rn, rd, d, i + 1)

RECURSIVE SumSq(_, _, _)
SumSq(I, J, i) == IF i = 0 THEN 0 ELSE Sq(I[i] - J[i]) + SumSq(I, J, i - 1)

\* np.linalg.norm(I-J): arrays of one element broadcast, other shapes must agree
Norm(I, J) ==
    IF Len(I) = Len(J) THEN SumSq(I, J, Len(I))
    ELSE IF Len(I) = 1 THEN SumSq([k \in 1..Len(J) |-> I[1]], J, Len(J))
    ELSE IF Len(J) = 1 THEN SumSq(I, [k \in 1..Len(I) |-> J[1]], Len(I))
    ELSE Raised

\* the bound r is given as the fraction rn/rd = r^2, or rn = Inf
euclidean_distance(I, J, rn, rd) ==
    IF rn /= Inf THEN EdLoop(I, J, rn, rd, 0, 1) ELSE Norm(I, J)

\* I[::step]
Decimate(I, step) == [k \in 1..((Len(I) - 1) \div step + 1) |-> I[(k - 1) * step + 1]]

ed_cached_strict(I, J, rn, rd, w) ==
    IF 2 * w[1] < w[2]
    THEN LET step == w[2] \div w[1]
         IN euclidean_distance(Decimate(I, step), Decimate(J, step), rn, rd)
    ELSE euclidean_distance(I, J, rn, rd)

\* if w <= 0.5: step = int(1/w); I, J = I[::step], J[::step]; a window of 0
\* raises ZeroDivisionError
ed_cached(I, J, rn, rd, w) ==
    IF 2 * w[1] <= w[2]
    THEN IF w[1] = 0 THEN Raised
         ELSE LET step == w[2] \div w[1]
              IN euclidean_distance(Decimate(I, step), Decimate(J, step), rn, rd)
    ELSE euclidean_distance(I, J, rn, rd)

\* ed(I, J, r, w) with the bound r^2 = rn/rd
ed_frac(I, J, rn, rd, w) == ed_cached(I, J, rn, rd, w)

\* ed(I, J, r, w) with the bound r^2 = r2
ed(I, J, r2, w) == ed_frac(I, J, r2, 1, w)

\* metrics[metric](I, J, w = w, r = r); a name the registry lacks raises KeyError
Metric(metric, I, J, w, r2) ==
    IF metric = "dtw" THEN dtw(I, J, w, r2)
    ELSE IF metric = "euclidean" THEN ed(I, J, r2, w)
    ELSE Raised

\* ------------------------------------------------------- state variables
VARIABLES
    pc,          \* "idle", the loop or pool a call is in, or "done"
    args,        \* the arguments of the call in progress
    i,           \* number of library entries the current loop has processed
    best_so_far, \* best_so_far (query), min_distance (pairwise_argmin)
    best_index,  \* best_index (query), min_distance_index (pairwise_argmin)
    pending,     \* pool tasks not yet finished (positions 1..len(C))
    results,     \* pool.map's result list, in input order
    ret,         \* the value returned, or Raised
    cache,       \* the lru_cache of dtw_cached and of ed_cached: key -> value
    cum_sum,     \* the matrix dtw_matrix is filling, <<>> outside a traced call
    col,         \* j of dtw_matrix: the column it writes next
    hist,        \* sequential_query: <<bound passed, distance returned>> per entry
    self         \* the Shapelet object, NoShapelet before one is built

vars == <<pc, args, i, best_so_far, best_index, pending, results, ret,
          cache, cum_sum, col, hist, self>>

\* the state the kernels and searches modelled as functions leave alone
Aux == <<cache, cum_sum, col, hist, self>>

NoShapelet == [series |-> <<>>, original |-> <<>>, candidates |-> <<>>, shapelets |-> <<>>]

\* lru_cache starts empty
EmptyCache == [dtw |-> {}, ed |-> {}]

\* r and rd give the bound of a kernel call, r^2 = r / rd; cpus is os.cpu_count()
NoArgs == [fn |-> "none", q |-> <<>>, C |-> <<>>, w |-> DefaultWindow,
           metric |-> "dtw", cores |-> 1, r |-> Inf, rd |-> 1, cpus |-> 1,
           thres |-> <<9, 10>>, window_length |-> 80, step |-> 1, qty |-> 1]

Cores == {1, 4}

\* worker counts that are not positive
BadCores == {0 - 1, 0}

\* a metric name the registry does not hold
UnknownMetrics == {"manhattan"}

Init ==
    /\ pc = "idle"
    /\ args = NoArgs
    /\ i = 0
    /\ best_so_far = Inf
    /\ best_index = None
    /\ pending = {}
    /\ results = <<>>
    /\ ret = None
    /\ cache = EmptyCache
    /\ cum_sum = <<>>
    /\ col = 0
    /\ hist = <<>>
    /\ self = NoShapelet

Locals == <<i, best_so_far, best_index, pending, results>>

\* --------------------------------------------------------- kernel calls
\* a call dtw(I, J, w, r) with a window drawn from W is entered
CallDtw(W) ==
    /\ pc = "idle"
    /\ \E I \in Series, J \in Series, w \in W, r \in Bounds :
          args' = [NoArgs EXCEPT !.fn = "dtw", !.q = I, !.C = <<J>>, !.w = w, !.r = r]
    /\ pc' = "dtw"
    /\ UNCHANGED <<Locals, ret>>
    /\ UNCHANGED Aux

\* the call computes its distance and returns it
DtwReturn ==
    /\ pc = "dtw"
    /\ ret' = dtw(args.q, args.C[1], args.w, args.r)
    /\ pc' = "done"
    /\ UNCHANGED <<args, Locals>>
    /\ UNCHANGED Aux

\* a call ed(I, J, r, w) with a window drawn from W is entered
CallEd(W) ==
    /\ pc = "idle"
    /\ \E I \in Series, J \in Series, w \in W, r \in Bounds :
          args' = [NoArgs EXCEPT !.fn = "ed", !.q = I, !.C = <<J>>, !.w = w, !.r = r,
                                 !.metric = "euclidean"]
    /\ pc' = "ed"
    /\ UNCHANGED <<Locals, ret>>
    /\ UNCHANGED Aux

\* distance = ed(I, J); r = distance * 0.5; ed(I, J, r = r) on arrays of one
\* length: the second call is entered with r^2 = distance^2 / 4
CallEdHalf ==
    /\ pc = "idle"
    /\ \E I \in Series, J \in Series :
          /\ Len(I) = Len(J)
          /\ args' = [NoArgs EXCEPT !.fn = "ed", !.q = I, !.C = <<J>>, !.w = <<1, 1>>,
                                    !.r = ed(I, J, Inf, <<1, 1>>), !.rd = 4,
                                    !.metric = "euclidean"]
    /\ pc' = "ed"
    /\ UNCHANGED <<Locals, ret>>
    /\ UNCHANGED Aux

\* the call computes its distance, or fails, and returns
EdReturn ==
    /\ pc = "ed"
    /\ ret' = ed_frac(args.q, args.C[1], args.r, args.rd, args.w)
    /\ pc' = "done"
    /\ UNCHANGED <<args, Locals>>
    /\ UNCHANGED Aux

\* ----------------------------------------------- dtw_matrix, cell by cell
BandHiExclusive(row, m, band) == (IF m < row + band THEN m ELSE row + band) - 1

\* the last column of range(max(1, i-w), min(m, i+w)+1)
BandHi(row, m, band) == IF m < row + band THEN m ELSE row + band

\* the first column of range(max(1, i-w), min(m, i+w)+1)
BandLo(row, band) == Max2(1, row - band)

\* the bounds the traced calls pass
TraceBounds == {1, Inf}

\* dtw_matrix(I, J, w, r) is entered: the matrix is allocated and the first
\* row's loop over j starts
DtwMatrixCall ==
    /\ pc = "idle"
    /\ \E I \in Series, J \in Series, w \in Windows, r \in TraceBounds :
          /\ args' = [NoArgs EXCEPT !.fn = "dtw_matrix", !.q = I, !.C = <<J>>,
                                    !.w = w, !.r = r]
          /\ cum_sum' = InitMatrix(Len(I), Len(J))
          /\ col' = BandLo(1, Band(Len(I), Len(J), w))
    /\ pc' = "dtw_matrix"
    /\ i' = 1
    /\ UNCHANGED <<best_so_far, best_index, pending, results, ret, cache, hist, self>>

\* cum_sum[i, j] = cost + min(cum_sum[i-1, j], cum_sum[i, j-1], cum_sum[i-1, j-1])
DtwMatrixCell ==
    /\ pc = "dtw_matrix"
    /\ i <= Len(args.q)
    /\ col <= BandHi(i, Len(args.C[1]), Band(Len(args.q), Len(args.C[1]), args.w))
    /\ cum_sum' = [cum_sum EXCEPT ![i][col] =
                      Add(Sq(args.q[i] - args.C[1][col]),
                          Min3(cum_sum[i - 1][col], cum_sum[i][col - 1],
                               cum_sum[i - 1][col - 1]))]
    /\ col' = col + 1
    /\ UNCHANGED <<pc, args, i, best_so_far, best_index, pending, results, ret,
                   cache, hist, self>>

\* the row is complete: return the matrix if its minimum exceeds r squared,
\* go to the next row otherwise
DtwMatrixRowEnd ==
    /\ pc = "dtw_matrix"
    /\ i <= Len(args.q)
    /\ col > BandHi(i, Len(args.C[1]), Band(Len(args.q), Len(args.C[1]), args.w))
    /\ IF Abandon(RowMin(cum_sum[i], Len(args.C[1])), args.r)
       THEN /\ pc' = "done"
            /\ ret' = cum_sum[Len(args.q)][Len(args.C[1])]
            /\ UNCHANGED <<i, col>>
       ELSE /\ i' = i + 1
            /\ col' = BandLo(i + 1, Band(Len(args.q), Len(args.C[1]), args.w))
            /\ UNCHANGED <<pc, ret>>
    /\ UNCHANGED <<args, best_so_far, best_index, pending, results, cum_sum,
                   cache, hist, self>>

\* the loop over i has ended: return cum_sum (ret is its last cell)
DtwMatrixReturn ==
    /\ pc = "dtw_matrix"
    /\ i > Len(args.q)
    /\ pc' = "done"
    /\ ret' = cum_sum[Len(args.q)][Len(args.C[1])]
    /\ UNCHANGED <<args, Locals, Aux>>

DtwMatrixSteps == DtwMatrixCell \/ DtwMatrixRowEnd \/ DtwMatrixReturn

\* ------------------------------------------------------ memoised kernels
\* the arguments of the memoised calls: two sequences of MaxCacheLen samples,
\* a window and a bound
CacheSeries == [1..MaxCacheLen -> Samples]

CacheWindows == {<<1, 4>>, <<1, 1>>}

CacheBounds == {0, Inf}

DtwKeyNoBound(I, J, w, r) == <<I, J, w>>

\* lru_cache's key of dtw_cached(tuple(I), tuple(J), w = w, r = r)
DtwKey(I, J, w, r) == <<I, J, w, r>>

\* lru_cache's key of ed_cached(tuple(I), tuple(J), r, w)
EdKey(I, J, r, w) == <<I, J, r, w>>

Cached(entries, key) == \E e \in entries : e.key = key

Lookup(entries, key) == (CHOOSE e \in entries : e.key = key).val

CacheSize == Cardinality(cache.dtw) + Cardinality(cache.ed)

\* dtw(I, J, w, r) through lru_cache: a key the cache holds returns the stored
\* value, another key runs dtw_cached and stores what it returns
DtwCached ==
    /\ pc = "idle"
    /\ \E I \in CacheSeries, J \in CacheSeries, w \in CacheWindows, r \in CacheBounds :
          /\ Cached(cache.dtw, DtwKey(I, J, w, r)) \/ CacheSize < MaxCache
          /\ args' = [NoArgs EXCEPT !.fn = "dtw", !.q = I, !.C = <<J>>, !.w = w, !.r = r]
          /\ IF Cached(cache.dtw, DtwKey(I, J, w, r))
             THEN /\ ret' = Lookup(cache.dtw, DtwKey(I, J, w, r))
                  /\ UNCHANGED cache
             ELSE /\ ret' = dtw(I, J, w, r)
                  /\ cache' = [cache EXCEPT !.dtw = @ \cup
                                  {[key |-> DtwKey(I, J, w, r), val |-> dtw(I, J, w, r)]}]
    /\ pc' = "done"
    /\ UNCHANGED <<Locals, cum_sum, col, hist, self>>

\* ed(I, J, r, w) through lru_cache; a call that raises stores nothing
EdCached ==
    /\ pc = "idle"
    /\ \E I \in CacheSeries, J \in CacheSeries, w \in CacheWindows, r \in CacheBounds :
          /\ Cached(cache.ed, EdKey(I, J, r, w)) \/ CacheSize < MaxCache
          /\ args' = [NoArgs EXCEPT !.fn = "ed", !.q = I, !.C = <<J>>, !.w = w, !.r = r,
                                    !.metric = "euclidean"]
          /\ IF Cached(cache.ed, EdKey(I, J, r, w))
             THEN /\ ret' = Lookup(cache.ed, EdKey(I, J, r, w))
                  /\ UNCHANGED cache
             ELSE /\ ret' = ed(I, J, r, w)
                  /\ cache' = IF ed(I, J, r, w) = Raised THEN cache
                              ELSE [cache EXCEPT !.ed = @ \cup
                                      {[key |-> EdKey(I, J, r, w), val |-> ed(I, J, r, w)]}]
    /\ pc' = "done"
    /\ UNCHANGED <<Locals, cum_sum, col, hist, self>>

\* ----------------------------------------------------------------- query
ImprovesOrTies(dist, best) == LessEq(dist, best)

\* if dist < best_so_far
Improves(dist, best) == Less(dist, best)

\* query(q, C, w, metric, parallel_cores) with a window drawn from W, a worker
\* count from K and a metric name from M
QueryWith(W, K, M) ==
    /\ pc = "idle"
    /\ \E q \in Series, C \in Libraries, w \in W, metric \in M, cores \in K :
          /\ args' = [NoArgs EXCEPT !.fn = "query", !.q = q, !.C = C, !.w = w,
                                    !.metric = metric, !.cores = cores]
          /\ pc' = IF cores > 1 THEN "parallel_query_map" ELSE "sequential_query"
          /\ pending' = IF cores > 1 THEN 1..Len(C) ELSE {}
          /\ results' = IF cores > 1 THEN [k \in 1..Len(C) |-> None] ELSE <<>>
    /\ i' = 0
    /\ best_so_far' = Inf
    /\ best_index' = None
    /\ UNCHANGED ret
    /\ UNCHANGED Aux

\* query with a positive worker count and a registered metric
Query(W) == QueryWith(W, Cores, MetricNames)

\* the loop state before the first iteration
ScanInit == [i |-> 0, best_so_far |-> Inf, best_index |-> None, raised |-> FALSE]

\* one iteration of the argmin loops (sequential_query, the reduction of
\* parallel_query, sequential_pairwise_argmin) on the distance dist; a None
\* distance makes the comparison raise TypeError, an exception propagates
ScanStep(s, dist) ==
    IF dist = Raised \/ dist = None
    THEN [s EXCEPT !.raised = TRUE]
    ELSE [i |-> s.i + 1,
          best_so_far |-> IF Improves(dist, s.best_so_far) THEN dist ELSE s.best_so_far,
          best_index |-> IF Improves(dist, s.best_so_far) THEN s.i ELSE s.best_index,
          raised |-> FALSE]

ScanIndexOnly(dist) ==
    LET s == ScanStep([i |-> i, best_so_far |-> best_so_far,
                       best_index |-> best_index, raised |-> FALSE], dist)
    IN IF s.raised
       THEN /\ ret' = Raised
            /\ pc' = "done"
            /\ UNCHANGED <<i, best_so_far, best_index>>
       ELSE /\ i' = s.i
            /\ best_index' = s.best_index
            /\ UNCHANGED <<best_so_far, pc, ret>>

\* the loop variables after one iteration on the distance dist
Scan(dist) ==
    LET s == ScanStep([i |-> i, best_so_far |-> best_so_far,
                       best_index |-> best_index, raised |-> FALSE], dist)
    IN IF s.raised
       THEN /\ ret' = Raised
            /\ pc' = "done"
            /\ UNCHANGED <<i, best_so_far, best_index>>
       ELSE /\ i' = s.i
            /\ best_so_far' = s.best_so_far
            /\ best_index' = s.best_index
            /\ UNCHANGED <<pc, ret>>

\* sequential_query as a function of its arguments: the loop from state s on
RECURSIVE SequentialQueryFrom(_, _, _, _, _)
SequentialQueryFrom(q, C, w, metric, s) ==
    IF s.raised THEN Raised
    ELSE IF s.i = Len(C) THEN s.best_index
    ELSE SequentialQueryFrom(q, C, w, metric,
             ScanStep(s, Metric(metric, q, C[s.i + 1], w, s.best_so_far)))

sequential_query(q, C, w, metric) == SequentialQueryFrom(q, C, w, metric, ScanInit)

SequentialQueryStep ==
    /\ pc = "sequential_query"
    /\ i < Len(args.C)
    /\ \A dist \in {Metric(args.metric, args.q, args.C[i + 1], args.w, best_so_far)} :
          /\ Scan(dist)
          /\ hist' = Append(hist, <<best_so_far, dist>>)
    /\ UNCHANGED <<args, pending, results, cache, cum_sum, col, self>>

SequentialQueryReturn ==
    /\ pc = "sequential_query"
    /\ i = Len(args.C)
    /\ ret' = best_index
    /\ pc' = "done"
    /\ UNCHANGED <<args, Locals>>
    /\ UNCHANGED Aux

\* metrics[metric](q, c, w): the third positional parameter of dtw is w, of ed is r
query_worker(q, c, w, metric) ==
    IF metric = "dtw" THEN dtw(q, c, w, Inf)
    ELSE IF metric = "euclidean" THEN ed_frac(q, c, Sq(w[1]), Sq(w[2]), <<1, 1>>)
    ELSE Raised

ParallelQueryWorker ==
    /\ pc = "parallel_query_map"
    /\ \E k \in pending :
          /\ results' = [results EXCEPT
                            ![k] = query_worker(args.q, args.C[k], args.w, args.metric)]
          /\ pending' = pending \ {k}
    /\ UNCHANGED <<pc, args, i, best_so_far, best_index, ret>>
    /\ UNCHANGED Aux

AnyRaised(res) == \E k \in DOMAIN res : res[k] = Raised

\* pool.map returns, or re-raises a worker's exception
ParallelQueryMapDone ==
    /\ pc = "parallel_query_map"
    /\ pending = {}
    /\ IF AnyRaised(results)
       THEN ret' = Raised /\ pc' = "done"
       ELSE pc' = "parallel_query_reduce" /\ UNCHANGED ret
    /\ UNCHANGED <<args, Locals>>
    /\ UNCHANGED Aux

ParallelQueryReduceStep ==
    /\ pc = "parallel_query_reduce"
    /\ i < Len(results)
    /\ Scan(results[i + 1])
    /\ UNCHANGED <<args, pending, results>>
    /\ UNCHANGED Aux

ParallelQueryReturn ==
    /\ pc = "parallel_query_reduce"
    /\ i = Len(results)
    /\ ret' = best_index
    /\ pc' = "done"
    /\ UNCHANGED <<args, Locals>>
    /\ UNCHANGED Aux

\* ------------------------------------------------------- pairwise_argmin
\* floor(1000 * sqrt(s)) for the naturals s a squared distance can be
SurdTable ==
    [s \in 1..(2 * MaxLen * MaxVal * MaxVal) |->
        CHOOSE x \in 0..(1000 * s) : x * x <= 1000000 * s /\ 1000000 * s < (x + 1) * (x + 1)]

\* the largest m whose square divides n
SquarePart(n) == CHOOSE m \in 1..n : n % (m * m) = 0 /\ \A k \in (m + 1)..n : n % (k * k) /= 0

\* the distance itself, dist**0.5, of a squared distance n, as its multiple of
\* 1/1000: m * sqrt(s) for n = m * m * s, so that equal sums of distances have
\* equal representations
Root(n) ==
    IF n = Inf THEN Inf
    ELSE IF n = 0 THEN 0
    ELSE SquarePart(n) * SurdTable[n \div (SquarePart(n) * SquarePart(n))]

\* a sum of kernel results (of the distances, not of their squares): an
\* exception in one term propagates
RECURSIVE SumDist(_, _)
SumDist(f, S) ==
    IF S = {} THEN 0
    ELSE LET k == CHOOSE x \in S : TRUE
             rest == SumDist(f, S \ {k})
         IN IF f[k] = Raised \/ rest = Raised THEN Raised ELSE Add(Root(f[k]), rest)

\* sequential_score(q, C, metric, w): metrics[metric](q, c, w = w) for c in C
sequential_score(q, C, metric, w) == [k \in 1..Len(C) |-> Metric(metric, q, C[k], w, Inf)]

\* pairwise_argmin(C, parallel_cores, w, metric) with a window drawn from W, a
\* worker count from K and a metric name from M; a count below 1 raises ValueError
PairwiseArgminWith(W, K, M) ==
    /\ pc = "idle"
    /\ \E C \in Libraries, w \in W, metric \in M, cores \in K :
          /\ args' = [NoArgs EXCEPT !.fn = "pairwise_argmin", !.C = C, !.w = w,
                                    !.metric = metric, !.cores = cores]
          /\ pc' = IF cores > 1 THEN "parallel_pairwise_map"
                   ELSE IF cores = 1 THEN "sequential_pairwise"
                   ELSE "done"
          /\ ret' = IF cores < 1 THEN Raised ELSE ret
          /\ pending' = IF cores > 1 THEN 1..Len(C) ELSE {}
          /\ results' = IF cores > 1 THEN [k \in 1..Len(C) |-> None] ELSE <<>>
    /\ i' = 0
    /\ best_so_far' = Inf
    /\ best_index' = None
    /\ UNCHANGED Aux

\* pairwise_argmin with a positive worker count and a registered metric
PairwiseArgmin(W) == PairwiseArgminWith(W, Cores, MetricNames)

\* the inner loop over j /= i
TotalDistance(C, k, metric, w) ==
    SumDist(sequential_score(C[k], C, metric, w), (1..Len(C)) \ {k})

\* sequential_pairwise_argmin as a function of its arguments
RECURSIVE SequentialPairwiseFrom(_, _, _, _)
SequentialPairwiseFrom(C, metric, w, s) ==
    IF s.raised THEN Raised
    ELSE IF s.i = Len(C) THEN s.best_index
    ELSE SequentialPairwiseFrom(C, metric, w,
             ScanStep(s, TotalDistance(C, s.i + 1, metric, w)))

sequential_pairwise_argmin(C, metric, w) == SequentialPairwiseFrom(C, metric, w, ScanInit)

SequentialPairwiseStep ==
    /\ pc = "sequential_pairwise"
    /\ i < Len(args.C)
    /\ Scan(TotalDistance(args.C, i + 1, args.metric, args.w))
    /\ UNCHANGED <<args, pending, results>>
    /\ UNCHANGED Aux

SequentialPairwiseReturn ==
    /\ pc = "sequential_pairwise"
    /\ i = Len(args.C)
    /\ ret' = best_index
    /\ pc' = "done"
    /\ UNCHANGED <<args, Locals>>
    /\ UNCHANGED Aux

\* sum(sequential_score(q, C, metric, w)): the entry itself is included
pairwise_argmin_worker(q, C, metric, w) ==
    SumDist(sequential_score(q, C, metric, w), 1..Len(C))

ParallelPairwiseWorker ==
    /\ pc = "parallel_pairwise_map"
    /\ \E k \in pending :
          /\ results' = [results EXCEPT
                  ![k] = pairwise_argmin_worker(args.C[k], args.C, args.metric, args.w)]
          /\ pending' = pending \ {k}
    /\ UNCHANGED <<pc, args, i, best_so_far, best_index, ret>>
    /\ UNCHANGED Aux

\* np.argmin(results): the first position of the minimum, ValueError when empty
ArgMin(res) ==
    IF Len(res) = 0 THEN Raised
    ELSE (CHOOSE k \in 1..Len(res) :
             /\ \A j \in 1..Len(res) : LessEq(res[k], res[j])
             /\ \A j \in 1..(k - 1) : Less(res[k], res[j])) - 1

ParallelPairwiseReturn ==
    /\ pc = "parallel_pairwise_map"
    /\ pending = {}
    /\ ret' = IF AnyRaised(results) THEN Raised ELSE ArgMin(results)
    /\ pc' = "done"
    /\ UNCHANGED <<args, Locals>>
    /\ UNCHANGED Aux

\* ----------------------------------------------------------------- score
\* the value of ret that stands for np.array(results)
Array == 0 - 4

\* score(q, C, metric, w, parallel_cores) with a window drawn from W, a worker
\* count from K and a metric name from M; a count below 1 prints a message and
\* the call returns None
ScoreWith(W, K, M) ==
    /\ pc = "idle"
    /\ \E q \in Series, C \in Libraries, w \in W, metric \in M, cores \in K :
          /\ args' = [NoArgs EXCEPT !.fn = "score", !.q = q, !.C = C, !.w = w,
                                    !.metric = metric, !.cores = cores]
          /\ pc' = IF cores = 1 THEN "sequential_score"
                   ELSE IF cores > 0 THEN "parallel_score_map"
                   ELSE "done"
          /\ ret' = IF cores < 1 THEN None ELSE ret
          /\ pending' = IF cores > 1 THEN 1..Len(C) ELSE {}
          /\ results' = IF cores > 1 THEN [k \in 1..Len(C) |-> None] ELSE <<>>
    /\ i' = 0
    /\ best_so_far' = Inf
    /\ best_index' = None
    /\ UNCHANGED Aux

\* score with a positive worker count and a registered metric
Score(W) == ScoreWith(W, Cores, MetricNames)

\* scores.append(metrics[metric](q, c, w = w)); an exception propagates
SequentialScoreStep ==
    /\ pc = "sequential_score"
    /\ i < Len(args.C)
    /\ \A d \in {Metric(args.metric, args.q, args.C[i + 1], args.w, Inf)} :
          IF d = Raised
          THEN /\ ret' = Raised
               /\ pc' = "done"
               /\ UNCHANGED <<i, results>>
          ELSE /\ results' = Append(results, d)
               /\ i' = i + 1
               /\ UNCHANGED <<pc, ret>>
    /\ UNCHANGED <<args, best_so_far, best_index, pending>>
    /\ UNCHANGED Aux

\* return np.array(scores)
SequentialScoreReturn ==
    /\ pc = "sequential_score"
    /\ i = Len(args.C)
    /\ ret' = Array
    /\ pc' = "done"
    /\ UNCHANGED <<args, Locals>>
    /\ UNCHANGED Aux

score_worker_positional(q, c, metric, w) == query_worker(q, c, w, metric)

\* metrics[metric](q, c, w = w)
score_worker(q, c, metric, w) == Metric(metric, q, c, w, Inf)

ParallelScoreWorker ==
    /\ pc = "parallel_score_map"
    /\ \E k \in pending :
          /\ results' = [results EXCEPT
                            ![k] = score_worker(args.q, args.C[k], args.metric, args.w)]
          /\ pending' = pending \ {k}
    /\ UNCHANGED <<pc, args, i, best_so_far, best_index, ret>>
    /\ UNCHANGED Aux

\* pool.map returns and the list becomes the array, or a worker's exception
\* is raised again
ParallelScoreReturn ==
    /\ pc = "parallel_score_map"
    /\ pending = {}
    /\ ret' = IF AnyRaised(results) THEN Raised ELSE Array
    /\ pc' = "done"
    /\ UNCHANGED <<args, Locals>>
    /\ UNCHANGED Aux

ScoreSteps ==
    \/ SequentialScoreStep
    \/ SequentialScoreReturn
    \/ ParallelScoreWorker
    \/ ParallelScoreReturn

\* -------------------------------------------------------- find_pool_size
\* the worker counts a pool is asked for
Requests == (0 - 1)..MaxRequest

\* the values of os.cpu_count()
CpuCounts == 1..MaxCpu

find_pool_size(parallel_cores, maximum) ==
    IF parallel_cores > maximum THEN Max2(1, maximum - 1)
    ELSE IF parallel_cores < 0 THEN 1
    ELSE parallel_cores

\* multiprocessing.Pool(processes = find_pool_size(parallel_cores)): ret is the
\* size of the pool
FindPoolSize ==
    /\ pc = "idle"
    /\ \E parallel_cores \in Requests, maximum \in CpuCounts :
          /\ args' = [NoArgs EXCEPT !.fn = "find_pool_size", !.cores = parallel_cores,
                                    !.cpus = maximum]
          /\ ret' = find_pool_size(parallel_cores, maximum)
    /\ pc' = "done"
    /\ UNCHANGED Locals
    /\ UNCHANGED Aux

\* ------------------------------------- pairwise_argmin_parallel, striped
\* the largest library the striped reduction is run on
MaxStripedLib == 3

\* the largest number of chunks (parallel_cores) of the striped reduction
MaxChunks == 3

StripedLibraries == UNION {[1..n -> Series] : n \in 0..MaxStripedLib}

ChunkCounts == 1..MaxChunks

\* utils.euclidean_distance(arr1, arr2, w = w) of the striped implementation:
\* step = int(1/w) if w != 1 else 1, both arrays decimated, then the norm
utils_euclidean_distance(arr1, arr2, w) ==
    IF w[1] = 0 THEN Raised
    ELSE LET step == IF w[1] = w[2] THEN 1 ELSE w[2] \div w[1]
         IN Norm(Decimate(arr1, step), Decimate(arr2, step))

\* metrics[metric](C[i], C[j], w = w) of the striped implementation; its dtw
\* is the banded matrix of dtw_matrix without a bound
StripedMetric(metric, I, J, w) ==
    IF metric = "dtw" THEN dtw(I, J, w, Inf)
    ELSE IF metric = "euclidean" THEN utils_euclidean_distance(I, J, w)
    ELSE Raised

\* total_distance of entry k (1-based) over every j /= k
StripedTotal(C, k, metric, w) ==
    SumDist([j \in 1..Len(C) |-> StripedMetric(metric, C[k], C[j], w)], (1..Len(C)) \ {k})

\* the loop of pairwise_worker over range(k, len(C), step) from index k
\* (0-based) on: strict <, so the first index of the chunk's minimum is kept
RECURSIVE PairwiseWorkerFrom(_, _, _, _, _, _, _)
PairwiseWorkerFrom(C, metric, w, k, step, min_distance, min_distance_index) ==
    IF k >= Len(C) THEN <<min_distance, min_distance_index>>
    ELSE LET total_distance == StripedTotal(C, k + 1, metric, w)
         IN IF total_distance = Raised THEN <<Raised, Raised>>
            ELSE IF Less(total_distance, min_distance)
            THEN PairwiseWorkerFrom(C, metric, w, k + step, step, total_distance, k)
            ELSE PairwiseWorkerFrom(C, metric, w, k + step, step,
                                    min_distance, min_distance_index)

\* pairwise_worker(chunk, C, metric, w) for chunk = range(first, len(C), step)
pairwise_worker(first, step, C, metric, w) ==
    PairwiseWorkerFrom(C, metric, w, first, step, Inf, None)

\* pairwise_argmin_parallel(C, parallel_cores, w, metric): chunk k of
\* parallel_cores is handed to the pool as task k
StripedPairwiseCall ==
    /\ pc = "idle"
    /\ \E C \in StripedLibraries, parallel_cores \in ChunkCounts, metric \in MetricNames :
          /\ args' = [NoArgs EXCEPT !.fn = "pairwise_argmin_parallel", !.C = C,
                                    !.w = DefaultWindow, !.metric = metric,
                                    !.cores = parallel_cores]
          /\ pending' = 1..parallel_cores
          /\ results' = [k \in 1..parallel_cores |-> <<None, None>>]
    /\ pc' = "striped_map"
    /\ UNCHANGED <<i, best_so_far, best_index, ret>>
    /\ UNCHANGED Aux

\* one worker of the pool finishes its chunk, in any order
StripedWorker ==
    /\ pc = "striped_map"
    /\ \E k \in pending :
          /\ results' = [results EXCEPT
                  ![k] = pairwise_worker(k - 1, args.cores, args.C, args.metric, args.w)]
          /\ pending' = pending \ {k}
    /\ UNCHANGED <<pc, args, i, best_so_far, best_index, ret>>
    /\ UNCHANGED Aux

\* min(results, key = lambda x: x[0]): the first pair, in chunk order, whose
\* distance no other pair's is below
MinByDistance(res) ==
    res[CHOOSE k \in 1..Len(res) :
            /\ \A j \in 1..Len(res) : LessEq(res[k][1], res[j][1])
            /\ \A j \in 1..(k - 1) : Less(res[k][1], res[j][1])]

\* starmap returns the pairs in chunk order, or raises a worker's exception
StripedReturn ==
    /\ pc = "striped_map"
    /\ pending = {}
    /\ ret' = IF \E k \in 1..Len(results) : results[k][1] = Raised THEN Raised
              ELSE MinByDistance(results)[2]
    /\ pc' = "done"
    /\ UNCHANGED <<args, Locals>>
    /\ UNCHANGED Aux

StripedSteps == StripedWorker \/ StripedReturn

\* ------------------------------------------------------ class Shapelet
\* the largest sample of a series a Shapelet is built on
MaxPeakVal == 2

\* the longest series a Shapelet is built on
MaxPeakLen == 5

\* the longest window of windowed_extraction
MaxWindow == 2

\* the largest qty of shapelet_selection
MaxQty == 3

ShapeletSeries == UNION {[1..n -> 0..MaxPeakVal] : n \in 1..MaxPeakLen}

\* thres of phase_sync as a fraction: the default 0.9, the median, the minimum
Thresholds == {<<9, 10>>, <<1, 2>>, <<0, 1>>}

WindowLengths == 1..MaxWindow

WindowSteps == {1, 2}

Quantities == 1..MaxQty

\* the k-th smallest element (1-based) of array
KthSmallest(array, k) ==
    CHOOSE v \in {array[x] : x \in 1..Len(array)} :
        /\ Cardinality({x \in 1..Len(array) : array[x] < v}) < k
        /\ k <= Cardinality({x \in 1..Len(array) : array[x] <= v})

\* value > np.quantile(array, thres): the quantile interpolates linearly
\* between the sorted elements around position (len(array) - 1) * thres
AboveQuantile(array, value, thres) ==
    LET h == (Len(array) - 1) * thres[1]
        lo == h \div thres[2] + 1
        hi == IF lo < Len(array) THEN lo + 1 ELSE lo
    IN thres[2] * value >
          thres[2] * KthSmallest(array, lo)
            + (h % thres[2]) * (KthSmallest(array, hi) - KthSmallest(array, lo))

PeakAtAnyHeight(array, k, thres) ==
    /\ array[k + 1] - array[k] < 0
    /\ array[k] - array[k - 1] > 0

\* the test of find_first_peak at index k > 1 (0-based): first_diff < 0 and
\* first[k-1] > 0 and second_diff < 0 and array[k] > thres
PeakAt(array, k, thres) ==
    /\ array[k + 1] - array[k] < 0
    /\ array[k] - array[k - 1] > 0
    /\ (array[k + 1] - array[k]) - (array[k] - array[k - 1]) < 0
    /\ AboveQuantile(array, array[k + 1], thres)

\* the loop of find_first_peak over range(1, len(array) - 1) from k on; falling
\* off its end returns None
RECURSIVE FindFirstPeakFrom(_, _, _)
FindFirstPeakFrom(array, thres, k) ==
    IF k >= Len(array) - 1 THEN None
    ELSE IF k > 1 /\ PeakAt(array, k, thres) THEN k
    ELSE FindFirstPeakFrom(array, thres, k + 1)

find_first_peak(array, thres) == FindFirstPeakFrom(array, thres, 1)

\* series[start:], where series[None:] is the whole series
SliceFrom(series, start) ==
    IF start = None THEN series ELSE SubSeq(series, start + 1, Len(series))

\* Shapelet(series, metric = 'euclidean')
ShapeletNew ==
    /\ pc = "idle"
    /\ \E series \in ShapeletSeries :
          self' = [series |-> series, original |-> series,
                   candidates |-> <<>>, shapelets |-> <<>>]
    /\ args' = [NoArgs EXCEPT !.fn = "Shapelet", !.metric = "euclidean"]
    /\ pc' = "shapelet"
    /\ UNCHANGED <<ret, Locals, cache, cum_sum, col, hist>>

\* phase_sync(thres): self.series = self.series[find_first_peak(...):]
PhaseSync ==
    /\ pc = "shapelet"
    /\ \E thres \in Thresholds :
          /\ self' = [self EXCEPT
                         !.series = SliceFrom(self.series, find_first_peak(self.series, thres))]
          /\ args' = [args EXCEPT !.fn = "phase_sync", !.q = self.series, !.thres = thres]
    /\ UNCHANGED <<pc, ret, Locals, cache, cum_sum, col, hist>>

\* the windows series[i:i+window_length] for i in
\* np.arange(0, len(series) - window_length, step)
Windowed(series, window_length, step) ==
    LET stop == Len(series) - window_length
        count == IF stop <= 0 THEN 0 ELSE (stop - 1) \div step + 1
    IN [k \in 1..count |->
           SubSeq(series, (k - 1) * step + 1, (k - 1) * step + window_length)]

\* windowed_extraction(window_length, step)
WindowedExtraction ==
    /\ pc = "shapelet"
    /\ \E window_length \in WindowLengths, step \in WindowSteps :
          /\ self' = [self EXCEPT
                         !.candidates = Windowed(self.series, window_length, step)]
          /\ args' = [args EXCEPT !.fn = "windowed_extraction",
                                  !.window_length = window_length, !.step = step]
    /\ pc' = "extracted"
    /\ UNCHANGED <<ret, Locals, cache, cum_sum, col, hist>>

\* _compare_array_to_candidates(array) with metric 'euclidean': the sum of
\* np.linalg.norm(candidate - array) over the candidates
compare_array_to_candidates(candidates, array) ==
    SumDist([k \in 1..Len(candidates) |-> Norm(candidates[k], array)], 1..Len(candidates))

\* distances[cost] = candidate, candidate by candidate: a cost met again
\* replaces the candidate stored under it
Distances(candidates) ==
    [cost \in {compare_array_to_candidates(candidates, candidates[k]) :
                  k \in 1..Len(candidates)} |->
        candidates[CHOOSE k \in 1..Len(candidates) :
            /\ compare_array_to_candidates(candidates, candidates[k]) = cost
            /\ \A x \in (k + 1)..Len(candidates) :
                  compare_array_to_candidates(candidates, candidates[x]) /= cost]]

\* order_candidates('candidates'): the values of distances by ascending key
order_candidates(candidates) ==
    LET distances == Distances(candidates)
        keys == DOMAIN distances
    IN [n \in 1..Cardinality(keys) |->
           distances[CHOOSE cost \in keys :
                        Cardinality({x \in keys : x < cost}) = n - 1]]

\* candidates[:qty]
Take(candidates, qty) == SubSeq(candidates, 1, IF qty < Len(candidates) THEN qty ELSE Len(candidates))

OrderCandidates ==
    /\ pc = "extracted"
    /\ self' = [self EXCEPT !.candidates = order_candidates(self.candidates)]
    /\ args' = [args EXCEPT !.fn = "order_candidates", !.C = self.candidates]
    /\ UNCHANGED <<pc, ret, Locals, cache, cum_sum, col, hist>>

\* shapelet_selection(barycenter = None, qty, comparison = 'candidates')
ShapeletSelection ==
    /\ pc = "extracted"
    /\ \E qty \in Quantities :
          /\ self' = [self EXCEPT
                         !.candidates = order_candidates(self.candidates),
                         !.shapelets = Take(order_candidates(self.candidates), qty)]
          /\ args' = [args EXCEPT !.fn = "shapelet_selection", !.C = self.candidates,
                                  !.qty = qty]
    /\ pc' = "done"
    /\ UNCHANGED <<ret, Locals, cache, cum_sum, col, hist>>

\* the caller is done with a Shapelet it extracted nothing from, as
\* test_phase_sync is when it returns
ShapeletEnd ==
    /\ pc = "shapelet"
    /\ pc' = "done"
    /\ UNCHANGED <<args, ret, Locals, Aux>>

ShapeletSteps ==
    \/ PhaseSync
    \/ ShapeletEnd
    \/ WindowedExtraction
    \/ OrderCandidates
    \/ ShapeletSelection

\* ---------------------------------------------------------------- return
Return ==
    /\ pc = "done"
    /\ pc' = "idle"
    /\ args' = NoArgs
    /\ i' = 0
    /\ best_so_far' = Inf
    /\ best_index' = None
    /\ pending' = {}
    /\ results' = <<>>
    /\ ret' = None
    /\ cum_sum' = <<>>
    /\ col' = 0
    /\ hist' = <<>>
    /\ self' = NoShapelet
    /\ UNCHANGED cache

Steps ==
    \/ SequentialQueryStep
    \/ SequentialQueryReturn
    \/ ParallelQueryWorker
    \/ ParallelQueryMapDone
    \/ ParallelQueryReduceStep
    \/ ParallelQueryReturn
    \/ SequentialPairwiseStep
    \/ SequentialPairwiseReturn
    \/ ParallelPairwiseWorker
    \/ ParallelPairwiseReturn
    \/ Return

\* calls of dtw with a window in (0, 1]
NextDtw == CallDtw(Windows) \/ DtwReturn \/ Return

\* calls of ed with a window in (0, 1]
NextEd == CallEd(Windows) \/ EdReturn \/ Return

\* calls of query and pairwise_argmin with a window in (0, 1]
NextSearch == Query(Windows) \/ PairwiseArgmin(Windows) \/ Steps

\* calls of dtw and of ed with a window in (0, 1]
NextKernel == CallDtw(Windows) \/ DtwReturn \/ CallEd(Windows) \/ EdReturn \/ Return

\* calls of ed with half the exact distance as the bound
NextEdHalf == CallEdHalf \/ EdReturn \/ Return

\* calls of score with a window in (0, 1]
NextScore == Score(Windows) \/ ScoreSteps \/ Return

\* pools being sized
NextPool == FindPoolSize \/ Return

\* calls of dtw_matrix traced cell by cell
NextDtwMatrix == DtwMatrixCall \/ DtwMatrixSteps \/ Return

\* calls of dtw and of ed with their lru_cache
NextCache == DtwCached \/ EdCached \/ Return

\* calls of the striped pairwise_argmin_parallel
NextStriped == StripedPairwiseCall \/ StripedSteps \/ Return

\* the life of a Shapelet object
NextShapelet == ShapeletNew \/ ShapeletSteps \/ Return

\* Shapelet objects that are phase-synchronised and dropped
NextPhaseSync == ShapeletNew \/ PhaseSync \/ ShapeletEnd \/ Return

\* every call of dtw, ed, query, pairwise_argmin and score: with a window in
\* (0, 1] or outside it, with a worker count that is positive or not, with a
\* metric name that is registered or not
NextCalls ==
    \/ CallDtw(Windows)
    \/ CallEd(Windows)
    \/ Query(Windows)
    \/ PairwiseArgmin(Windows)
    \/ Score(Windows)
    \/ CallDtw(BadWindows)
    \/ CallEd(BadWindows)
    \/ Query(BadWindows)
    \/ PairwiseArgmin(BadWindows)
    \/ QueryWith({DefaultWindow}, BadCores, MetricNames)
    \/ ScoreWith({DefaultWindow}, BadCores, MetricNames)
    \/ PairwiseArgminWith({DefaultWindow}, BadCores, MetricNames)
    \/ QueryWith({DefaultWindow}, Cores, UnknownMetrics)
    \/ ScoreWith({DefaultWindow}, Cores, UnknownMetrics)
    \/ PairwiseArgminWith({DefaultWindow}, Cores, UnknownMetrics)
    \/ DtwReturn
    \/ EdReturn
    \/ ScoreSteps
    \/ Steps

\* everything: the calls above, the memoised kernels (whose cache outlives
\* every call), the traced matrix, the pools, the striped reduction and the
\* Shapelet objects
Next ==
    \/ CallDtw(Windows)
    \/ CallEd(Windows)
    \/ Query(Windows)
    \/ PairwiseArgmin(Windows)
    \/ Score(Windows)
    \/ CallDtw(BadWindows)
    \/ CallEd(BadWindows)
    \/ Query(BadWindows)
    \/ PairwiseArgmin(BadWindows)
    \/ QueryWith({DefaultWindow}, BadCores, MetricNames)
    \/ ScoreWith({DefaultWindow}, BadCores, MetricNames)
    \/ PairwiseArgminWith({DefaultWindow}, BadCores, MetricNames)
    \/ QueryWith({DefaultWindow}, Cores, UnknownMetrics)
    \/ ScoreWith({DefaultWindow}, Cores, UnknownMetrics)
    \/ PairwiseArgminWith({DefaultWindow}, Cores, UnknownMetrics)
    \/ CallEdHalf
    \/ FindPoolSize
    \/ DtwCached
    \/ EdCached
    \/ DtwMatrixCall
    \/ DtwMatrixSteps
    \/ StripedPairwiseCall
    \/ StripedSteps
    \/ ShapeletNew
    \/ ShapeletSteps
    \/ DtwReturn
    \/ EdReturn
    \/ ScoreSteps
    \/ Steps

Spec == Init /\ [][Next]_vars

SpecCalls == Init /\ [][NextCalls]_vars

SpecDtw == Init /\ [][NextDtw]_vars

SpecEd == Init /\ [][NextEd]_vars

SpecSearch == Init /\ [][NextSearch]_vars

SpecKernel == Init /\ [][NextKernel]_vars

SpecEdHalf == Init /\ [][NextEdHalf]_vars

SpecScore == Init /\ [][NextScore]_vars

SpecPool == Init /\ [][NextPool]_vars

SpecCache == Init /\ [][NextCache]_vars

SpecDtwMatrix == Init /\ [][NextDtwMatrix]_vars

SpecStriped == Init /\ [][NextStriped]_vars

SpecShapelet == Init /\ [][NextShapelet]_vars

SpecPhaseSync == Init /\ [][NextPhaseSync]_vars

\* ================================================================ claims
Returned(fn) == pc = "done" /\ args.fn = fn

\* the distance dtw returns without a bound
ExactDtw(I, J, w) == dtw(I, J, w, Inf)

\* C1: for non-empty A, B, a window in (0,1] and a bound r >= 0, dtw(A, B, w, r)
\* returns the exact distance (its value with r = +infinity) or +infinity, and
\* returns the exact distance whenever the exact distance is <= r.
C1_DtwAbandonSound ==
    (Returned("dtw") /\ args.w \in Windows) =>
        \A exact \in {ExactDtw(args.q, args.C[1], args.w)} :
           /\ ret = exact \/ ret = Inf
           /\ LessEq(exact, args.r) => ret = exact

\* a call that was abandoned: the exact distance is finite and above the bound
C1_Witness ==
    /\ Returned("dtw")
    /\ args.w \in Windows
    /\ args.r /= Inf
    /\ ret = Inf
    /\ \E exact \in {ExactDtw(args.q, args.C[1], args.w)} :
          exact /= Inf /\ Less(args.r, exact)

\* the distance ed returns without a bound
ExactEd(I, J, w) == ed(I, J, Inf, w)

\* C2: for equal-length A, B and a finite bound r >= 0, ed(A, B, r) returns a
\* number >= the true Euclidean distance, and the true distance whenever the
\* true distance is <= r.
C2_EdAbandonSound ==
    (/\ Returned("ed")
     /\ args.w = <<1, 1>>
     /\ Len(args.q) = Len(args.C[1])
     /\ args.r /= Inf) =>
        LET exact == ExactEd(args.q, args.C[1], args.w)
        IN /\ IsNum(ret)
           /\ LessEq(exact, ret)
           /\ LessEq(exact, args.r) => ret = exact

\* the smallest 0-based position of a minimum of the non-empty list D
FirstMinimiser(D) ==
    (CHOOSE k \in 1..Len(D) :
        /\ \A j \in 1..Len(D) : ~(D[j] /= Inf /\ (D[k] = Inf \/ D[j] < D[k]))
        /\ \A j \in 1..(k - 1) : D[k] /= Inf /\ (D[j] = Inf \/ D[k] < D[j])) - 1

SameLengths(q, C) == \A k \in 1..Len(C) : Len(C[k]) = Len(q)

AllSameLength(C) == \A j, k \in 1..Len(C) : Len(C[j]) = Len(C[k])

\* C3: sequential query with 'dtw' on a non-empty library returns the smallest
\* index minimising the exact (unbounded) DTW distance to q.
C3_SequentialDtwArgmin ==
    (/\ Returned("query")
     /\ args.metric = "dtw"
     /\ args.cores = 1
     /\ args.w \in Windows
     /\ Len(args.C) >= 1) =>
        ret = FirstMinimiser([k \in 1..Len(args.C) |-> ExactDtw(args.q, args.C[k], args.w)])

\* C4: sequential query with 'euclidean' on a non-empty library of sequences
\* as long as q completes without error and returns the smallest index
\* minimising the true Euclidean distance to q.
C4_SequentialEuclideanArgmin ==
    (/\ Returned("query")
     /\ args.metric = "euclidean"
     /\ args.cores = 1
     /\ args.w = DefaultWindow
     /\ Len(args.C) >= 1
     /\ SameLengths(args.q, args.C)) =>
        ret = FirstMinimiser([k \in 1..Len(args.C) |-> SumSq(args.q, args.C[k], Len(args.q))])

\* C5: query with parallel_cores > 1 returns the index that query with
\* parallel_cores = 1 returns, for both metrics.
C5_ParallelQueryAgrees ==
    (/\ Returned("query")
     /\ args.cores > 1
     /\ args.w \in Windows
     /\ Len(args.C) >= 1
     /\ args.metric = "euclidean" => SameLengths(args.q, args.C)) =>
        ret = sequential_query(args.q, args.C, args.w, args.metric)

\* C6: pairwise_argmin with parallel_cores > 1 returns what pairwise_argmin
\* with parallel_cores = 1 returns, whatever the order the workers finish in.
C6_ParallelPairwiseAgrees ==
    (/\ Returned("pairwise_argmin")
     /\ args.cores > 1
     /\ args.w \in Windows
     /\ args.metric = "euclidean" => AllSameLength(args.C)) =>
        ret = sequential_pairwise_argmin(args.C, args.metric, args.w)

\* the total of the distances from entry k to every other entry
BruteTotal(C, k, metric, w) ==
    SumDist([j \in 1..Len(C) |-> Metric(metric, C[k], C[j], w, Inf)], (1..Len(C)) \ {k})

\* C7: on a library of at least 2 sequences, sequential pairwise_argmin returns
\* the smallest index minimising the total distance to all other entries.
C7_SequentialPairwiseArgmin ==
    (/\ Returned("pairwise_argmin")
     /\ args.cores = 1
     /\ args.w \in Windows
     /\ Len(args.C) >= 2
     /\ args.metric = "euclidean" => AllSameLength(args.C)) =>
        ret = FirstMinimiser([k \in 1..Len(args.C) |->
                                 BruteTotal(args.C, k, args.metric, args.w)])

\* a default-metric, default-window query whose library holds q exactly once
QueryWithOneCopy ==
    /\ Returned("query")
    /\ args.metric = "dtw"
    /\ args.w = DefaultWindow
    /\ Cardinality({k \in 1..Len(args.C) : args.C[k] = args.q}) = 1

\* C8 as stated: when exactly one library entry equals q element-wise, query
\* with the default metric returns the index of that entry (1 core or 4).
C8_ReturnsTheCopy ==
    QueryWithOneCopy => args.C[ret + 1] = args.q

\* C8 amended: when exactly one library entry equals q element-wise, query with
\* the default metric returns the smallest index whose exact DTW distance to q
\* is 0 (1 core or 4).
C8_ReturnsFirstZeroDistance ==
    QueryWithOneCopy =>
        /\ ret >= 0
        /\ ExactDtw(args.q, args.C[ret + 1], args.w) = 0
        /\ \A k \in 1..ret : ExactDtw(args.q, args.C[k], args.w) /= 0

\* the copy of q comes after another entry at DTW distance 0, in parallel mode
C8_Witness ==
    /\ QueryWithOneCopy
    /\ args.cores = 4
    /\ ret = 0
    /\ args.C[1] /= args.q

\* C9: query on an empty library, and pairwise_argmin on a library of fewer
\* than 2 entries, raise an error, in sequential and in parallel mode.
C9_EmptyLibraryRaises ==
    (/\ pc = "done"
     /\ args.w \in Windows
     /\ \/ args.fn = "query" /\ Len(args.C) = 0
        \/ args.fn = "pairwise_argmin" /\ Len(args.C) < 2) =>
        ret = Raised

\* C10: a kernel or a search called with a window outside (0, 1] raises an
\* error and returns no distance or index.
C10_BadWindowRaises ==
    (pc = "done" /\ args.w \in BadWindows) => ret = Raised

\* C11: ed on two arrays of different lengths fails with an error, whatever the
\* bound r (the window is left at its default 1).
C11_UnequalLengthsRaise ==
    (Returned("ed") /\ args.w = <<1, 1>> /\ args.rd = 1
        /\ Len(args.q) /= Len(args.C[1]))
    => ret = Raised

\* C12: query, score and pairwise_argmin called with a worker count of 0 or
\* below raise an error: the call ends with no index, no vector and no None.
C12_NonPositiveCoresRaise ==
    (pc = "done" /\ args.fn \in {"query", "score", "pairwise_argmin"}
        /\ args.cores \in BadCores)
    => ret = Raised

\* C13: the pool size find_pool_size returns is at most os.cpu_count() - 1,
\* whatever worker count was requested (on a machine with two cores or more,
\* where a pool of that size exists).
C13_PoolLeavesOneCore ==
    (Returned("find_pool_size") /\ args.cpus > 1) => ret <= args.cpus - 1

\* C14: query, score and pairwise_argmin called with a metric name that is not
\* registered raise an error, whatever the library (empty and single-entry
\* libraries included).
C14_UnknownMetricRaises ==
    (pc = "done" /\ args.fn \in {"query", "score", "pairwise_argmin"}
        /\ args.metric \in UnknownMetrics)
    => ret = Raised

\* C15: with the default bound and a window in (0, 1], dtw(A, B, w) equals
\* dtw(B, A, w) for sequences of any lengths, and ed(A, B, w) equals
\* ed(B, A, w) for sequences of equal length.
C15_Symmetric ==
    (pc = "done" /\ args.r = Inf /\ args.w \in Windows)
    => /\ args.fn = "dtw" => ret = dtw(args.C[1], args.q, args.w, Inf)
       /\ (args.fn = "ed" /\ Len(args.q) = Len(args.C[1]))
              => ret = ed(args.C[1], args.q, Inf, args.w)

\* a banded dtw call on different sequences of different lengths has returned a
\* finite positive distance
C15_Witness ==
    /\ Returned("dtw")
    /\ args.r = Inf
    /\ args.w = <<1, 2>>
    /\ Len(args.q) < Len(args.C[1])
    /\ ret > 0
    /\ ret = dtw(args.C[1], args.q, args.w, Inf)

\* A with every run of equal consecutive samples merged into one sample
RECURSIVE Collapse(_)
Collapse(A) ==
    IF Len(A) <= 1 THEN A
    ELSE IF A[1] = A[2] THEN Collapse(Tail(A))
    ELSE <<A[1]>> \o Collapse(Tail(A))

\* a call of dtw or of ed on two sequences of one length, with the default
\* bound and the default window of the kernel, has returned
EqualLengthDefaultCall ==
    /\ pc = "done"
    /\ args.r = Inf
    /\ \/ args.fn = "dtw" /\ args.w = DefaultWindow
       \/ args.fn = "ed" /\ args.w = <<1, 1>>
    /\ Len(args.q) = Len(args.C[1])

\* C16 as stated: with the default bound the distance between equal-length A
\* and B, by dtw and by ed, is 0 if and only if A and B are identical.
C16_ZeroIffIdentical ==
    EqualLengthDefaultCall => (ret = 0 <=> args.q = args.C[1])

\* C16 amended: dtw(A, A) = 0 and ed(A, A) = 0; ed(A, B) > 0 whenever A and B
\* differ; dtw(A, B) > 0 whenever A and B still differ after runs of equal
\* consecutive samples are merged.
C16_ZeroForIdentical ==
    EqualLengthDefaultCall
    => /\ args.q = args.C[1] => ret = 0
       /\ (args.fn = "ed" /\ args.q /= args.C[1]) => ret > 0
       /\ (args.fn = "dtw" /\ Collapse(args.q) /= Collapse(args.C[1])) => ret > 0

\* dtw has returned a positive distance for two sequences of one length that
\* differ after merging runs
C16_Witness ==
    /\ EqualLengthDefaultCall
    /\ args.fn = "dtw"
    /\ Len(args.q) = MaxLen
    /\ Collapse(args.q) /= Collapse(args.C[1])
    /\ ret > 0

Least(S) == CHOOSE x \in S : \A y \in S : x <= y

\* cell (a, b) of the full matrix of the unbanded recurrence (squared)
RECURSIVE FullCost(_, _, _, _)
FullCost(A, B, a, b) ==
    Sq(A[a] - B[b])
    + (IF a = 1 /\ b = 1 THEN 0
       ELSE Least({FullCost(A, B, p[1], p[2]) :
                      p \in {<<a - 1, b>>, <<a, b - 1>>, <<a - 1, b - 1>>}
                              \cap ((1..a) \X (1..b))}))

\* C17: dtw(A, B, w = 1.0) with no bound equals the unbanded DTW distance of
\* the full-matrix recurrence, for sequences of any lengths.
C17_FullBandIsUnbanded ==
    (Returned("dtw") /\ args.w = <<1, 1>> /\ args.r = Inf)
    => ret = FullCost(args.q, args.C[1], Len(args.q), Len(args.C[1]))

\* dtw with the full band has returned a positive distance for sequences whose
\* lengths differ by two
C17_Witness ==
    /\ Returned("dtw")
    /\ args.w = <<1, 1>>
    /\ args.r = Inf
    /\ Len(args.q) + 2 = Len(args.C[1])
    /\ ret > 0

\* a call of score with a positive worker count, on arguments for which every
\* distance metric(q, C[k], w) is defined, has ended
ScoreCall ==
    /\ pc = "done"
    /\ args.fn = "score"
    /\ args.cores \in Cores
    /\ args.metric \in MetricNames
    /\ args.w \in Windows
    /\ args.metric = "euclidean" => \A k \in 1..Len(args.C) : Len(args.C[k]) = Len(args.q)

\* C18: score returns a vector of length len(C) whose k-th element is the
\* exact, unabandoned distance metric(q, C[k], w), in library order; the
\* parallel path returns the same vector as the sequential path whatever the
\* order in which the workers finish.
C18_ScoreVector ==
    ScoreCall
    => /\ ret = Array
       /\ Len(results) = Len(args.C)
       /\ \A k \in 1..Len(args.C) :
             results[k] = (IF args.metric = "dtw"
                           THEN dtw(args.q, args.C[k], args.w, Inf)
                           ELSE ed(args.q, args.C[k], Inf, args.w))

\* the parallel path has returned the vector of a library of MaxLib entries at
\* different Euclidean distances from the query
C18_Witness ==
    /\ ScoreCall
    /\ args.cores > 1
    /\ args.metric = "euclidean"
    /\ Len(args.C) = MaxLib
    /\ ret = Array
    /\ results[1] > results[MaxLib]
    /\ results[MaxLib] > 0

\* the sum of the squared differences of A and B at positions 0, s, 2s, ...
\* (0-based), from the 1-based position k on
RECURSIVE StridedSumSq(_, _, _, _)
StridedSumSq(A, B, s, k) ==
    IF k > Len(A) THEN 0 ELSE Sq(A[k] - B[k]) + StridedSumSq(A, B, s, k + s)

PrefixSumSq(A, B, k) == StridedSumSq(A, B, 1, 1) - StridedSumSq(A, B, 1, k + 1)

\* ed(A, B, r = d / 2) has returned, for equal-length A and B at the exact
\* distance d > 0 (args.r is d squared)
HalfBoundCall ==
    /\ Returned("ed")
    /\ args.rd = 4
    /\ args.r > 0

C21_NoModuleStateChanges == cache = EmptyCache

\* C29: whatever calls came before, a memoised call returns what the kernel
\* computes for its own arguments (I, J, w, r); a value stored under another
\* bound or window is never returned.
C29_CacheTransparent ==
    (pc = "done" /\ args.fn \in {"dtw", "ed"})
    => ret = (IF args.fn = "dtw" THEN dtw(args.q, args.C[1], args.w, args.r)
              ELSE ed(args.q, args.C[1], args.r, args.w))

\* a dtw call has returned while the cache holds its value and the different
\* value of the same sequences and window under the other bound
C29_Witness ==
    /\ Returned("dtw")
    /\ \E e \in cache.dtw, f \in cache.dtw :
          /\ e.key = DtwKey(args.q, args.C[1], args.w, args.r)
          /\ f.key[1] = e.key[1] /\ f.key[2] = e.key[2] /\ f.key[3] = e.key[3]
          /\ f.val /= e.val
          /\ ret = e.val

\* C22: in parallel query every worker that has finished has computed the
\* exact, unabandoned distance of q and its entry under the caller's window:
\* metric(q, c, w = w, r = +infinity), for 'dtw' and for 'euclidean'.
C22_WorkersComputeExact ==
    (/\ pc = "parallel_query_map"
     /\ args.w \in Windows
     /\ args.metric \in MetricNames
     /\ args.metric = "euclidean" => SameLengths(args.q, args.C))
    => \A k \in (1..Len(args.C)) \ pending :
          results[k] = Metric(args.metric, args.q, args.C[k], args.w, Inf)

\* the minimum of a set of naturals and +infinity
LeastExt(S) == IF S \subseteq {Inf} THEN Inf ELSE Least(S \ {Inf})

\* cell (a, b) has been written: it lies in the band and the loops are past it
Written(a, b, band) ==
    /\ a - b <= band
    /\ b - a <= band
    /\ a < i \/ (a = i /\ (b < col \/ pc = "done"))

\* C24: at every step of dtw_matrix and in the matrix it returns, with
\* band = floor(max(len(I), len(J)) * w): cell (0,0) is 0, the other cells of
\* row 0 and of column 0 are +infinity, every cell (a,b) with |a-b| > band is
\* +infinity, and every written cell is (I[a-1]-J[b-1])^2 plus the minimum of
\* its three neighbours (a-1,b), (a,b-1), (a-1,b-1).
C24_MatrixInvariant ==
    args.fn = "dtw_matrix"
    => \A n \in {Len(args.q)}, m \in {Len(args.C[1])} :
       \A band \in {(Max2(n, m) * args.w[1]) \div args.w[2]} :
          /\ cum_sum[0][0] = 0
          /\ \A b \in 1..m : cum_sum[0][b] = Inf
          /\ \A a \in 1..n : cum_sum[a][0] = Inf
          /\ \A a \in 1..n, b \in 1..m :
                /\ (a - b > band \/ b - a > band) => cum_sum[a][b] = Inf
                /\ Written(a, b, band)
                      => \E least \in {LeastExt({cum_sum[a - 1][b], cum_sum[a][b - 1],
                                                 cum_sum[a - 1][b - 1]})} :
                            cum_sum[a][b] = (IF least = Inf THEN Inf
                                             ELSE Sq(args.q[a] - args.C[1][b]) + least)

\* dtw_matrix has returned a matrix of MaxLen rows and columns whose corner
\* cells lie outside the band and whose last cell is finite and positive
C24_Witness ==
    /\ Returned("dtw_matrix")
    /\ Len(args.q) = MaxLen
    /\ Len(args.C[1]) = MaxLen
    /\ args.w = <<1, 2>>
    /\ cum_sum[1][MaxLen] = Inf
    /\ cum_sum[MaxLen][MaxLen] > 0
    /\ ret = cum_sum[MaxLen][MaxLen]

\* the distances the kernel returned for the first k entries
ReturnedDistances(k) == {d \in {hist[x][2] : x \in 1..k} : IsNum(d)}

\* C25: throughout sequential_query the bound passed for entry k is the
\* minimum of the distances returned for the entries before it (+infinity
\* for the first), best_so_far never increases, and when best_index is set
\* the distance returned for C[best_index] is best_so_far.
C25_BoundIsRunningMinimum ==
    (args.fn = "query" /\ args.cores = 1 /\ args.w \in Windows
        /\ args.metric \in MetricNames)
    => /\ \A k \in 1..Len(hist) :
             /\ hist[k][1] = LeastExt(ReturnedDistances(k - 1) \cup {Inf})
             /\ \A l \in 1..k : LessEq(hist[k][1], hist[l][1])
       /\ best_so_far = LeastExt(ReturnedDistances(Len(hist)) \cup {Inf})
       /\ best_index /= None
             => (best_index < Len(hist) /\ hist[best_index + 1][2] = best_so_far)

\* sequential_query has ended after the second of MaxLib entries improved on
\* the first
C25_Witness ==
    /\ Returned("query")
    /\ args.cores = 1
    /\ Len(hist) = MaxLib
    /\ hist[MaxLib][1] = hist[1][2]
    /\ hist[MaxLib][1] > hist[MaxLib][2]
    /\ hist[MaxLib][2] > 0
    /\ best_index = MaxLib - 1

\* C26: dtw(I, J, w) with no bound returns a finite distance for non-empty
\* sequences of any lengths and every window w in (0, 1].
C26_DtwIsFinite ==
    (Returned("dtw") /\ args.r = Inf /\ args.w \in Windows) => ret /= Inf

\* C23: in the striped pairwise_argmin_parallel, whatever the number of chunks
\* and the order in which the workers finish, the index returned is the lowest
\* library index among the entries whose total distance is minimal.
C23_TieGivesLowestIndex ==
    (/\ Returned("pairwise_argmin_parallel")
     /\ Len(args.C) >= 1
     /\ ret /= Raised
     /\ \E k \in 1..Len(args.C) :
           StripedTotal(args.C, k, args.metric, args.w) /= Inf) =>
        ret = FirstMinimiser([k \in 1..Len(args.C) |->
                                 StripedTotal(args.C, k, args.metric, args.w)])

\* the indices (0-based) at which the series a descends right after an ascent,
\* to a sample above the thres-quantile of a
PeakIndices(a, thres) ==
    {k \in 2..(Len(a) - 2) :
        /\ a[k - 1] < a[k]
        /\ a[k + 1] < a[k]
        /\ AboveQuantile(a, a[k + 1], thres)}

PhaseSynced == pc = "shapelet" /\ args.fn = "phase_sync"

\* C27 as stated: after phase_sync the series is strictly shorter than the
\* series the Shapelet was built on, whatever the series.
C27_AlwaysShorter == PhaseSynced => Len(self.series) < Len(self.original)

\* C27: phase_sync shortens the series exactly when find_first_peak finds a
\* peak: it then removes the samples before the least peak index, which are at
\* least 2 and leave at least 2; without a peak the series is left as it was.
\* self.original is never shortened.
C27_ShorterIffPeak ==
    PhaseSynced =>
        LET a == args.q
            P == PeakIndices(a, args.thres)
        IN /\ P = {} => self.series = a
           /\ P /= {} =>
                 \E k \in P :
                    /\ \A x \in P : k <= x
                    /\ self.series = SubSeq(a, k + 1, Len(a))
                    /\ Len(self.series) < Len(a)
                    /\ Len(self.series) >= 2
           /\ Len(self.series) <= Len(self.original)

\* a phase_sync that found a peak and removed the samples before it
C27_Witness == PhaseSynced /\ Len(self.series) < Len(args.q)

\* the comparison cost order_candidates sorts by
CandidateCost(candidates, k) ==
    SumDist([x \in 1..Len(candidates) |-> SumSq(candidates[x], candidates[k],
                                                Len(candidates[k]))],
            1..Len(candidates))

\* how often c occurs in the list
Occurrences(candidates, c) == Cardinality({k \in 1..Len(candidates) : candidates[k] = c})

\* C28: order_candidates only reorders the candidates, none dropped and none
\* duplicated, into non-decreasing comparison cost, and shapelet_selection(qty)
\* without a barycenter yields min(qty, number of candidates) shapelets.
C28_OrderOnlyReorders ==
    ((pc = "extracted" /\ args.fn = "order_candidates")
         \/ (pc = "done" /\ args.fn = "shapelet_selection")) =>
        /\ Len(self.candidates) = Len(args.C)
        /\ \A k \in 1..Len(args.C) :
              Occurrences(self.candidates, args.C[k]) = Occurrences(args.C, args.C[k])
        /\ \A k \in 1..(Len(self.candidates) - 1) :
              CandidateCost(self.candidates, k) <= CandidateCost(self.candidates, k + 1)
        /\ args.fn = "shapelet_selection" =>
              Len(self.shapelets) = (IF args.qty < Len(args.C) THEN args.qty ELSE Len(args.C))

====
